---- MODULE Spec2Model ----
(***************************************************************************)
(* Chest X-ray classification service: the model-handle lifecycle and the  *)
(* HTTP handlers of api_only.py, railway_starter.py, ml_api.py and the     *)
(* Gradio callback of app.py.                                              *)
(*                                                                         *)
(* One behaviour is one process running one of the entrypoints (variant).  *)
(* Handlers that run on the event loop are atomic up to their await; the   *)
(* loader thread and the threadpool background task interleave with them   *)
(* step by step.  SpecApiFair is the api_only process under fair           *)
(* scheduling; SpecWait is the test client of test_api.py and SpecDeploy   *)
(* the deployment check of check_deployment.py.                            *)
(***************************************************************************)
EXTENDS Integers, Sequences, FiniteSets, TLC

\* ---------------------------------------------------------------- bounds
MaxLoaders == 2     \* executions of a model load per process
MaxTasks == 2       \* background executions of load_model_if_needed in flight
MaxReqs == 1        \* /predict requests suspended at `await file.read()`
MaxDim == 1         \* number of distinct image widths tried
MaxRetries == 3     \* largest max_retries given to wait_for_api_to_start

\* ------------------------------------------------------------- constants
None == 0
TargetSize == 128
HTTP_200_OK == 200
HTTP_400_BAD_REQUEST == 400
HTTP_415_UNSUPPORTED_MEDIA_TYPE == 415
HTTP_500_INTERNAL_SERVER_ERROR == 500
HTTP_503_SERVICE_UNAVAILABLE == 503

Variants == {"api_only", "railway_starter", "ml_api", "app"}
ThreadedVariants == {"api_only", "railway_starter"}
HttpVariants == {"api_only", "railway_starter", "ml_api"}

CLASS_NAMES == <<"Lung_Opacity", "Normal", "Pneumonia">>
valid_types == {"image/jpeg", "image/png", "image/jpg"}

\* The accepted content types as the interface documents them.
AcceptedTypes == {"image/jpeg", "image/png", "image/jpg"}

\* Declared content types a client may send.
ContentTypes == AcceptedTypes \cup {"image/gif"}

\* Side lengths of uploaded images: the resize target and larger ones.
Side(k) == TargetSize + 172 * (k - 1)

\* What cv2.imdecode yields for the uploaded bytes: no image, or a
\* single-channel pixel grid of h rows and w columns.
NoImage == [ok |-> FALSE, h |-> 0, w |-> 0]
\* Decodable uploads are square or taller than wide.
Images ==
    {NoImage} \cup
    {[ok |-> TRUE, h |-> Side(k + d), w |-> Side(k)] : k \in 1..MaxDim, d \in {0, 1}}

\* Floats are fixed-point: the integer x stands for x / Scale.
Scale == 10000

\* Output vectors of the network (prediction[0]).  The network is whatever the
\* model file holds: the handlers guard against an output that is shorter or
\* longer than CLASS_NAMES.  Second vector: a tie of the first two outputs.
Predictions ==
    {<<7004, 1996, 1000>>, <<4000, 4000, 2000>>, <<1000, 3000, 6000>>,
     <<2500, 7500>>, <<1000, 2000, 3000, 4000>>, <<12000, -3000, 1000>>}

LoaderIds == 1..MaxLoaders
ReqIds == 1..MaxReqs

VARIABLES
    variant,             \* which entrypoint this process runs
    model_file_exists,   \* os.path.exists(Model/classification_cnn.h5)
    started,             \* the startup event has run (requests are served)
    model,               \* module global `model`: None or the loaded network
    model_loading,       \* api_only.model_loading
    model_load_started,  \* api_only.model_load_started
    model_ready,         \* api_only.model_ready
    loader,              \* position of each load execution
    warmed,              \* networks whose warmup inference completed
    task,                \* background calls of load_model_if_needed in flight:
                         \* how many are at its test, how many past it
    req,                 \* predict requests suspended at the await
    unload_seen,         \* an /unload-model request has been handled
    resp,                \* what the last step sent: a response, or the outcome
                         \* of a background call
    max_retries,         \* test_api.wait_for_api_to_start: its argument
    attempt,             \* ... the loop index i: probes issued so far
    probes,              \* ... what each health probe met, in order
    client_pc,           \* test_api.main: where the client is
    health_data,         \* check_deployment.main: the answer of /health
    root_data,           \* ... the answer of /
    model_status,        \* ... the latest answer of /model-status
    poll_i,              \* ... polls of the readiness wait issued so far
    deploy_pc            \* ... where the script is

vars == <<variant, model_file_exists, started, model, model_loading,
          model_load_started, model_ready, loader, warmed, task, req,
          unload_seen, resp, max_retries, attempt, probes, client_pc,
          health_data, root_data, model_status, poll_i, deploy_pc>>

flags == <<model, model_loading, model_load_started, model_ready>>

\* The state of the deployment check (check_deployment.py), a separate
\* process.
deploy == <<health_data, root_data, model_status, poll_i, deploy_pc>>

\* The state of the test client (test_api.py), a separate process, and of the
\* deployment check.
client == <<max_retries, attempt, probes, client_pc, deploy>>

\* The state of the service.
server == <<variant, model_file_exists, started, model, model_loading,
            model_load_started, model_ready, loader, warmed, task, req,
            unload_seen, resp>>

\* What no step of the service writes.
env == <<variant, model_file_exists, client>>

\* ------------------------------------------------------------ exceptions
\* Messages are sequences of tokens; string concatenation is \o.
HTTPException(code, detail) ==
    [type |-> "HTTPException", status_code |-> code, detail |-> detail]

PyError(type, msg) == [type |-> type, status_code |-> 0, detail |-> msg]

NoError == PyError("none", <<>>)

\* str(e): Starlette's HTTPException prints "<status_code>: <detail>".
Str(e) ==
    IF e.type = "HTTPException" THEN <<ToString(e.status_code), ": ">> \o e.detail
    ELSE e.detail

\* `except <cls>` matches e: every exception raised here derives from
\* Exception, HTTPException included.
Catches(cls, e) ==
    \/ cls = "Exception"
    \/ cls = e.type

\* predict, inner try: `except HTTPException as he: raise he`, then
\* `except Exception as e: raise HTTPException(400, ...)`.
InnerExcept(e) ==
    IF Catches("HTTPException", e) THEN e
    ELSE IF Catches("Exception", e)
         THEN HTTPException(HTTP_400_BAD_REQUEST,
                            <<"Error processing the image: ">> \o Str(e))
         ELSE e

\* An outer handler that lets an HTTPException through unchanged.
OuterExceptPassHttp(e) ==
    IF Catches("HTTPException", e) THEN e
    ELSE HTTPException(HTTP_500_INTERNAL_SERVER_ERROR,
                       <<"Error processing the request: ">> \o Str(e))

\* predict, outer try: `except Exception as e: raise HTTPException(500, ...)`.
OuterExcept(e) ==
    IF Catches("Exception", e)
    THEN HTTPException(HTTP_500_INTERNAL_SERVER_ERROR,
                       <<"Error processing the request: ">> \o Str(e))
    ELSE e

\* ------------------------------------------------------ classification
Min(a, b) == IF a < b THEN a ELSE b

\* An argmax that keeps the last maximum on ties.
ArgMaxLast(v) ==
    (CHOOSE i \in 1..Len(v) :
        /\ \A j \in 1..Len(v) : v[j] <= v[i]
        /\ \A j \in (i + 1)..Len(v) : v[j] < v[i]) - 1

\* np.argmax: 0-based index of the first maximum.
ArgMax(v) ==
    (CHOOSE i \in 1..Len(v) :
        /\ \A j \in 1..Len(v) : v[j] <= v[i]
        /\ \A j \in 1..(i - 1) : v[j] < v[i]) - 1

\* A lookup that clamps an index beyond CLASS_NAMES to the last name.
ClassNameClamped(class_idx) ==
    <<CLASS_NAMES[Min(class_idx + 1, Len(CLASS_NAMES))]>>

\* CLASS_NAMES[class_idx] if class_idx < len(CLASS_NAMES) else f"Class_{class_idx}"
ClassName(class_idx) ==
    IF class_idx < Len(CLASS_NAMES) THEN <<CLASS_NAMES[class_idx + 1]>>
    ELSE <<"Class_", class_idx>>

\* The dict with the guard off by one (i < len(prediction[0]) - 1).
ClassProbabilitiesShort(v) ==
    [name \in {CLASS_NAMES[i] : i \in 1..Min(Len(CLASS_NAMES), Len(v) - 1)} |->
        v[CHOOSE i \in 1..Len(CLASS_NAMES) : CLASS_NAMES[i] = name]]

\* The dict built by enumerate(CLASS_NAMES), guarded by len(prediction[0]).
ClassProbabilities(v) ==
    [name \in {CLASS_NAMES[i] : i \in 1..Min(Len(CLASS_NAMES), Len(v))} |->
        v[CHOOSE i \in 1..Len(CLASS_NAMES) : CLASS_NAMES[i] = name]]

\* img.shape of a grayscale grid is (rows, cols).
Shape(img) == <<img.h, img.w>>

\* The shape unpacked as (width, height).
ImageSizeSwapped(img) ==
    LET orig_width == Shape(img)[1]
        orig_height == Shape(img)[2]
    IN <<orig_width, "x", orig_height>>

\* f"{orig_width}x{orig_height}" after `orig_height, orig_width = img.shape`.
ImageSize(img) ==
    LET orig_height == Shape(img)[1]
        orig_width == Shape(img)[2]
    IN <<orig_width, "x", orig_height>>

\* The dict returned by a successful predict.
PredictResult(v, img) ==
    LET class_idx == ArgMax(v)
        probability == v[class_idx + 1]
    IN [diagnosis |-> ClassName(class_idx),
        confidence |-> probability * 100,
        class_probabilities |-> ClassProbabilities(v),
        image_size |-> ImageSize(img)]

\* f"{x:.1f}": x rounded to one decimal, as <<integer part, ".", decimal>>.
Format1f(x) ==
    LET tenths == (x * 10 + Scale \div 2) \div Scale
    IN <<tenths \div 10, ".", tenths % 10>>

\* app.predict_xray's `results` dict: the confidence is a formatted string and
\* there is no class_probabilities key.
AppResults(v, img) ==
    LET class_idx == ArgMax(v)
        probability == v[class_idx + 1]
    IN [diagnosis |-> ClassName(class_idx),
        confidence |-> Format1f(probability * 100) \o <<"%">>,
        image_size |-> ImageSize(img)]

\* ------------------------------------------------------ load executions
\* Positions of load_model_in_thread: "run" (path check, load_model and
\* warmup), "assign" (model = loaded_model), "ready" (model_ready = True),
\* "finally" (model_loading = False), "done".
InProgress(l) == {i \in DOMAIN l : l[i] \notin {"idle", "done"}}

Started(l) == {i \in DOMAIN l : l[i] # "idle"}

HasFree(l) == \E i \in DOMAIN l : l[i] = "idle"

NextId(l) == CHOOSE i \in DOMAIN l : l[i] = "idle" /\ \A j \in DOMAIN l : j < i => l[j] # "idle"

\* threading.Thread(target=load_model_in_thread, daemon=True).start()
StartThread(l) == [l EXCEPT ![NextId(l)] = "run"]

\* background_tasks.add_task(load_model_if_needed)
AddTask(t) == [t EXCEPT !.check = @ + 1]

\* Calls in flight are interchangeable: they are counted by position,
\* "check" (before the test of the flags) and "start" (the test chose to
\* start a load; the writes and the thread start are still to come).
NoTasks == [check |-> 0, start |-> 0]

TaskFree(t) == t.check + t.start < MaxTasks

\* ------------------------------------------------- lifecycle, as observed
\* The model can serve a request: api_only needs model and model_ready,
\* ml_api and app only the model.
Loaded ==
    /\ model # None
    /\ variant \in ThreadedVariants => model_ready

Handle ==
    IF InProgress(loader) # {} THEN "LOADING"
    ELSE IF model # None /\ model_ready THEN "READY"
    ELSE IF model = None /\ ~model_load_started /\ Started(loader) = {} THEN "UNLOADED"
    ELSE IF model = None /\ Started(loader) # {} THEN "FAILED"
    ELSE "OTHER"

\* ------------------------------------------------------------ responses
\* What a handler did on the way to its response (history, not program state).
\*   ct_accepted: the declared content type is one of AcceptedTypes.
\*   waited_load: the request arrived before the model was loaded and a load
\*   finished before its response.
\*   output: the network's output vector, when the forward pass returned one.
NoTrace ==
    [ct_accepted |-> FALSE, img |-> NoImage, model_checked |-> FALSE, body_read |-> FALSE,
     decoded |-> FALSE, loaded_at_arrival |-> FALSE, unloaded_during |-> FALSE,
     waited_load |-> FALSE, load_raised |-> FALSE, forward |-> None,
     fault |-> "none", output |-> <<>>]

NoReq == [busy |-> FALSE, lm |-> None, trace |-> NoTrace]

ErrorResponse(ep, e, tr) ==
    [ep |-> ep, status |-> e.status_code, body |-> [detail |-> e.detail], trace |-> tr]

OkResponse(ep, body, tr) ==
    [ep |-> ep, status |-> HTTP_200_OK, body |-> body, trace |-> tr]

NoResponse == [ep |-> "none", status |-> 0, body |-> [detail |-> <<>>], trace |-> NoTrace]

Respond(r) == resp' = r

\* A step that sends no response.
Quiet == resp' = NoResponse

\* ----------------------------------------------------------------- Init
\* The client is not running.
\* test_endpoint returns None when the request raised.
NoData == [kind |-> "none", nonempty |-> FALSE, model_ready |-> FALSE]

\* check_deployment.py is not running.
DeployIdle ==
    /\ health_data = NoData
    /\ root_data = NoData
    /\ model_status = NoData
    /\ poll_i = 0
    /\ deploy_pc = "idle"

ClientIdle ==
    /\ max_retries = 0
    /\ attempt = 0
    /\ probes = <<>>
    /\ client_pc = "idle"
    /\ DeployIdle

Init ==
    /\ ClientIdle
    /\ variant \in Variants
    /\ model_file_exists \in BOOLEAN
    /\ started = (variant \notin ThreadedVariants)
    /\ model = None
    /\ model_loading = FALSE
    /\ model_load_started = FALSE
    /\ model_ready = FALSE
    /\ loader = [i \in LoaderIds |-> "idle"]
    /\ warmed = {}
    /\ task = NoTasks
    /\ req = [i \in ReqIds |-> NoReq]
    /\ unload_seen = FALSE
    /\ resp = NoResponse

\* ------------------------------------------------------- startup events
\* api_only.startup_event: sets both flags, then starts the loader thread.
ApiStartup ==
    /\ variant = "api_only"
    /\ ~started
    /\ started' = TRUE
    /\ model_loading' = TRUE
    /\ model_load_started' = TRUE
    /\ loader' = StartThread(loader)
    /\ Quiet
    /\ UNCHANGED <<env, model, model_ready, warmed, task, req, unload_seen>>

\* railway_starter.startup_event: starts the loader thread, sets
\* main_app_ready (started) and none of api_only's flags.
RailwayStartup ==
    /\ variant = "railway_starter"
    /\ ~started
    /\ started' = TRUE
    /\ loader' = StartThread(loader)
    /\ Quiet
    /\ UNCHANGED <<env, flags, warmed, task, req, unload_seen>>

\* ------------------------------------------- load_model_in_thread steps
LoadOutcomes == {"ok", "load_raises", "warmup_raises"}

\* Lines 58-71, all local to the thread: os.path.exists, load_model and the
\* warmup predict.  Only a load whose warmup completed goes on to publish.
\* A thread whose early return and exceptions skip the finally block.
AfterRunSkipsFinally(ok) == IF ok THEN "assign" ELSE "done"

\* Where the thread goes after lines 58-71: on to publish, or (early return
\* at line 63, or the except block) to the finally block.
AfterRun(ok) == IF ok THEN "assign" ELSE "finally"

LoaderRun(i) ==
    /\ variant \in ThreadedVariants
    /\ loader[i] = "run"
    /\ \E outcome \in LoadOutcomes :
          /\ ~model_file_exists => outcome = "ok"
          /\ loader' = [loader EXCEPT ![i] = AfterRun(model_file_exists /\ outcome = "ok")]
          /\ warmed' = IF model_file_exists /\ outcome = "ok" THEN warmed \cup {i}
                       ELSE warmed
    /\ Quiet
    /\ UNCHANGED <<env, started, flags, task, req, unload_seen>>

\* model = loaded_model
LoaderAssign(i) ==
    /\ loader[i] = "assign"
    /\ model' = i
    /\ loader' = [loader EXCEPT ![i] = "ready"]
    /\ Quiet
    /\ UNCHANGED <<env, started, model_loading, model_load_started, model_ready,
                   warmed, task, req, unload_seen>>

\* model_ready = True
LoaderReady(i) ==
    /\ loader[i] = "ready"
    /\ model_ready' = TRUE
    /\ loader' = [loader EXCEPT ![i] = "finally"]
    /\ Quiet
    /\ UNCHANGED <<env, started, model, model_loading, model_load_started,
                   warmed, task, req, unload_seen>>

\* finally: model_loading = False.  The load has finished: suspended requests
\* that arrived before the model was loaded have now waited for a load.
LoaderFinally(i) ==
    /\ loader[i] = "finally"
    /\ model_loading' = FALSE
    /\ loader' = [loader EXCEPT ![i] = "done"]
    /\ req' = [s \in ReqIds |->
                 IF req[s].busy /\ ~req[s].trace.loaded_at_arrival
                 THEN [req[s] EXCEPT !.trace.waited_load = TRUE]
                 ELSE req[s]]
    /\ Quiet
    /\ UNCHANGED <<env, started, model, model_load_started, model_ready,
                   warmed, task, unload_seen>>

\* ------------------------------------- api_only.load_model_if_needed
\* Runs as a background task on the threadpool, so the loader thread and the
\* event loop interleave between its test of model_load_started and its
\* writes.  The framework may also discard a task that was added by a
\* handler which then raised; TaskChoices covers both.
TaskChoices == BOOLEAN

\* A function that starts the load again after a failed one.
LoadModelIfNeededBranchRetry(m, ready, load_started, loading) ==
    IF m # None /\ ready THEN "return"
    ELSE IF loading THEN "still_loading"
    ELSE IF m = None THEN "start"
    ELSE "return"

\* Lines 85-88 and 97-109: which branch the test selects.
LoadModelIfNeededBranch(m, ready, load_started, loading) ==
    IF m # None /\ ready THEN "return"
    ELSE IF ~load_started THEN "start"
    ELSE IF loading THEN "still_loading"
    ELSE IF m = None THEN "failed"
    ELSE "return"

\* What each branch raises: the three 503s, or nothing (`return model`).
LoadModelIfNeededRaises(branch) ==
    IF branch = "start"
    THEN HTTPException(HTTP_503_SERVICE_UNAVAILABLE,
                       <<"Model loading has started, please try again in a few seconds">>)
    ELSE IF branch = "still_loading"
    THEN HTTPException(HTTP_503_SERVICE_UNAVAILABLE,
                       <<"Model is still loading, please try again in a few seconds">>)
    ELSE IF branch = "failed"
    THEN HTTPException(HTTP_503_SERVICE_UNAVAILABLE,
                       <<"Model failed to load, please check logs">>)
    ELSE NoError

\* How a call ended, as the task runner sees it: the exception, or the model
\* returned.
CallOutcome(branch, m) ==
    LET e == LoadModelIfNeededRaises(branch)
    IN [ep |-> "load_model_if_needed", status |-> e.status_code,
        body |-> [detail |-> e.detail, model |-> IF e.type = "none" THEN m ELSE None],
        trace |-> NoTrace]

TaskCheck ==
    /\ task.check > 0
    /\ LET branch == LoadModelIfNeededBranch(model, model_ready, model_load_started,
                                             model_loading)
       IN IF branch = "start"
          THEN /\ task' = [task EXCEPT !.check = @ - 1, !.start = @ + 1]
               /\ Quiet
          ELSE /\ task' = [task EXCEPT !.check = @ - 1]
               /\ Respond(CallOutcome(branch, model))
    /\ UNCHANGED <<env, started, flags, loader, warmed, req, unload_seen>>

\* Lines 89-95: set the flags, start the thread, raise 503 (into the task runner).
TaskStart ==
    /\ task.start > 0
    /\ HasFree(loader)
    /\ model_loading' = TRUE
    /\ model_load_started' = TRUE
    /\ loader' = StartThread(loader)
    /\ task' = [task EXCEPT !.start = @ - 1]
    /\ Respond(CallOutcome("start", model))
    /\ UNCHANGED <<env, started, model, model_ready, warmed, req, unload_seen>>

\* ------------------------------------------------------ predict, shared
\* Library calls that may raise while an image is processed.
Faults == {"none", "resize", "forward"}

\* What happens to one upload after the body is read: the decoded image, the
\* library call that raises (if any) and the network's output.  Combinations
\* that differ only in a value the code never reaches are left out, and since
\* the result takes image_size from the image alone and the other keys from
\* the output alone, every image is tried with one output and every output
\* with one image.
AnyPrediction == CHOOSE v \in Predictions : TRUE

AnyImage == CHOOSE i \in Images : i.ok /\ i.h # i.w

Uploads ==
    {[img |-> NoImage, fault |-> "none", v |-> AnyPrediction]}
    \cup {[img |-> i, fault |-> f, v |-> AnyPrediction] :
            i \in Images \ {NoImage}, f \in Faults \ {"none"}}
    \cup {[img |-> i, fault |-> "none", v |-> AnyPrediction] : i \in Images \ {NoImage}}
    \cup {[img |-> AnyImage, fault |-> "none", v |-> v] : v \in Predictions}

\* A predict that never tests the model before it reads the upload.
ApiPredictGateNoModelTest(ct, ready, m) ==
    IF ct \notin valid_types THEN "unsupported" ELSE "read"

\* A predict that tests the model before the content type.
ApiPredictGateModelFirst(ct, ready, m) ==
    IF ~ready \/ m = None THEN "not_ready"
    ELSE IF ct \notin valid_types THEN "unsupported"
    ELSE "read"

\* First statements of api_only.predict: the content-type test, then the
\* model test.
ApiPredictGate(ct, ready, m) ==
    IF ct \notin valid_types THEN "unsupported"
    ELSE IF ~ready \/ m = None THEN "not_ready"
    ELSE "read"

\* A predict that schedules the load whenever the model is not ready.
ScheduleAlways(load_started) == TRUE

\* predict, not ready: `if not model_load_started:` guards add_task.
ShouldSchedule(load_started) == ~load_started

UnsupportedType ==
    HTTPException(HTTP_415_UNSUPPORTED_MEDIA_TYPE,
                  <<"File type not supported. Must be one of: ",
                    "image/jpeg, image/png, image/jpg">>)

\* The inner try block, from imdecode to the forward pass: the exception it
\* raises, or NoError.  m is the `model` the forward pass is called on.
ProcessImage(img, m, fault) ==
    IF ~img.ok
    THEN HTTPException(HTTP_400_BAD_REQUEST,
                       <<"Invalid image file. Could not decode the image.">>)
    ELSE IF fault = "resize" THEN PyError("cv2.error", <<"resize failed">>)
    ELSE IF m = None
         THEN PyError("AttributeError",
                      <<"'NoneType' object has no attribute 'predict'">>)
    ELSE IF fault = "forward" THEN PyError("RuntimeError", <<"forward pass failed">>)
    ELSE NoError

\* The network the forward pass was invoked on, None if it was never reached.
ForwardOn(img, m, fault) ==
    IF img.ok /\ fault # "resize" THEN m ELSE None

\* Everything after `await file.read()`: the response of the request.
FinishPredict(img, m, fault, v, tr) ==
    LET e == ProcessImage(img, m, fault)
        tr2 == [tr EXCEPT !.body_read = TRUE, !.decoded = TRUE, !.img = img,
                          !.forward = ForwardOn(img, m, fault), !.fault = fault]
    IN IF e.type = "none"
       THEN OkResponse("predict", PredictResult(v, img), [tr2 EXCEPT !.output = v])
       ELSE ErrorResponse("predict", OuterExcept(InnerExcept(e)), tr2)

HasFreeReq == \E s \in ReqIds : ~req[s].busy

FreeReq == CHOOSE s \in ReqIds : ~req[s].busy /\ \A r \in ReqIds : r < s => req[r].busy

ArrivalTrace(ct) ==
    [NoTrace EXCEPT !.ct_accepted = (ct \in AcceptedTypes),
                    !.loaded_at_arrival = Loaded]

\* ------------------------------------------------- api_only.predict
\* Up to `await file.read()`: 415, or not ready (503 raised inside the outer
\* try), or suspend at the await.
ApiPredictBegin(ct) ==
    /\ variant \in ThreadedVariants
    /\ started
    /\ LET gate == ApiPredictGate(ct, model_ready, model)
           tr == ArrivalTrace(ct)
       IN \/ /\ gate = "unsupported"
             /\ Respond(ErrorResponse("predict", UnsupportedType, tr))
             /\ UNCHANGED <<task, req>>
          \/ /\ gate = "not_ready"
             /\ \E queued \in TaskChoices :
                   task' = IF ShouldSchedule(model_load_started) /\ queued /\ TaskFree(task)
                           THEN AddTask(task) ELSE task
             /\ Respond(ErrorResponse("predict",
                   OuterExcept(HTTPException(HTTP_503_SERVICE_UNAVAILABLE,
                      <<"Model is not ready yet, please try again in a few seconds">>)),
                   [tr EXCEPT !.model_checked = TRUE]))
             /\ UNCHANGED req
          \/ /\ gate = "read"
             /\ HasFreeReq
             /\ req' = [req EXCEPT ![FreeReq] =
                          [busy |-> TRUE, lm |-> None,
                           trace |-> [tr EXCEPT !.model_checked = TRUE]]]
             /\ Quiet
             /\ UNCHANGED task
    /\ UNCHANGED <<env, started, flags, loader, warmed, unload_seen>>

\* After the await: decode, resize, forward pass on the global `model`.
ApiPredictFinish(s, img, fault, v) ==
    /\ variant \in ThreadedVariants
    /\ req[s].busy
    /\ Respond(FinishPredict(img, model, fault, v, req[s].trace))
    /\ req' = [req EXCEPT ![s] = NoReq]
    /\ UNCHANGED <<env, started, flags, loader, warmed, task, unload_seen>>

\* ------------------------------------- ml_api / app load_model_if_needed
\* Synchronous load inside the caller: the new value of `model`, whether the
\* warmup completed, the exception raised (or NoError), and whether
\* load_model ran.  id names the network a load would produce.
MlLoadModelIfNeeded(m, exists, outcome, id) ==
    IF m # None
    THEN [model |-> m, warm |-> FALSE, exc |-> NoError, ran |-> FALSE]
    ELSE IF ~exists
    THEN [model |-> None, warm |-> FALSE, ran |-> FALSE,
          exc |-> PyError("FileNotFoundError", <<"Model file not found">>)]
    ELSE IF outcome = "load_raises"
    THEN [model |-> None, warm |-> FALSE, ran |-> TRUE,
          exc |-> PyError("OSError", <<"unable to load model">>)]
    ELSE IF outcome = "warmup_raises"
    THEN [model |-> id, warm |-> FALSE, ran |-> TRUE,
          exc |-> PyError("RuntimeError", <<"warmup failed">>)]
    ELSE [model |-> id, warm |-> TRUE, ran |-> TRUE, exc |-> NoError]

\* A load is possible only while a network id is left (bound on loads); the
\* outcome is a choice only when a load runs.
CanLoad(outcome) ==
    IF model # None \/ ~model_file_exists THEN outcome = "ok"
    ELSE HasFree(loader)

LoadId == IF HasFree(loader) THEN NextId(loader) ELSE None

\* The effect of the synchronous load on the globals.
MlApplyLoad(ld) ==
    /\ model' = ld.model
    /\ warmed' = IF ld.warm THEN warmed \cup {ld.model} ELSE warmed
    /\ loader' = IF ld.ran THEN [loader EXCEPT ![LoadId] = "done"] ELSE loader

\* --------------------------------------------------- ml_api.predict
MlPredictGate(ct) ==
    IF ct \notin valid_types THEN "unsupported" ELSE "load"

MlPredictBegin(ct, outcome) ==
    /\ variant = "ml_api"
    /\ LET tr == ArrivalTrace(ct)
       IN \/ /\ MlPredictGate(ct) = "unsupported"
             /\ outcome = "ok"
             /\ Respond(ErrorResponse("predict", UnsupportedType, tr))
             /\ UNCHANGED <<model, warmed, loader, req>>
          \/ /\ MlPredictGate(ct) = "load"
             /\ CanLoad(outcome)
             /\ LET ld == MlLoadModelIfNeeded(model, model_file_exists, outcome, LoadId)
                    tr2 == [tr EXCEPT !.model_checked = TRUE, !.waited_load = ld.ran,
                                      !.load_raised = (ld.exc.type # "none")]
                IN /\ MlApplyLoad(ld)
                   /\ IF ld.exc.type # "none"
                      THEN /\ Respond(ErrorResponse("predict",
                                 OuterExcept(HTTPException(HTTP_503_SERVICE_UNAVAILABLE,
                                    <<"Model not available: ">> \o Str(ld.exc))), tr2))
                           /\ UNCHANGED req
                      ELSE /\ HasFreeReq
                           /\ req' = [req EXCEPT ![FreeReq] =
                                        [busy |-> TRUE, lm |-> ld.model, trace |-> tr2]]
                           /\ Quiet
    /\ UNCHANGED <<env, started, model_loading, model_load_started, model_ready,
                   task, unload_seen>>

\* After the await: the forward pass runs on the local `model`.
MlPredictFinish(s, img, fault, v) ==
    /\ variant = "ml_api"
    /\ req[s].busy
    /\ Respond(FinishPredict(img, req[s].lm, fault, v, req[s].trace))
    /\ req' = [req EXCEPT ![s] = NoReq]
    /\ UNCHANGED <<env, started, flags, loader, warmed, task, unload_seen>>

\* -------------------------------------------------- app.predict_xray
\* The Gradio callback: no HTTP status; errors come back as an error dict.
AppPredictXray(img, outcome, fault, v) ==
    /\ variant = "app"
    /\ LET tr == [ArrivalTrace("") EXCEPT !.img = img]
       IN IF ~img.ok
          THEN /\ outcome = "ok"
               /\ Respond([ep |-> "predict_xray", status |-> 0,
                           body |-> [error |-> <<"No image provided">>], trace |-> tr])
               /\ UNCHANGED <<model, warmed, loader>>
          ELSE /\ CanLoad(outcome)
               /\ LET ld == MlLoadModelIfNeeded(model, model_file_exists, outcome, LoadId)
                      e == IF ld.exc.type # "none" THEN ld.exc
                           ELSE ProcessImage(img, ld.model, fault)
                      tr2 == [tr EXCEPT !.model_checked = TRUE, !.waited_load = ld.ran,
                                !.load_raised = (ld.exc.type # "none"),
                                !.fault = fault,
                                !.output = IF e.type = "none" THEN v ELSE <<>>,
                                !.forward = IF ld.exc.type # "none" THEN None
                                            ELSE ForwardOn(img, ld.model, fault)]
                  IN /\ MlApplyLoad(ld)
                     /\ Respond([ep |-> "predict_xray", status |-> 0, trace |-> tr2,
                                 body |-> IF e.type = "none" THEN AppResults(v, img)
                                          ELSE [error |-> Str(e)]])
    /\ UNCHANGED <<env, started, model_loading, model_load_started, model_ready,
                   task, req, unload_seen>>

\* --------------------------------------------------------- unload_model
\* An unload that forgets model_ready.
ReadyAfterUnloadKept(v, ready) == ready

\* model_ready after an unload of a present model: api_only.unload_model
\* assigns False, ml_api.unload_model has no such flag.
ReadyAfterUnload(v, ready) == IF v \in ThreadedVariants THEN FALSE ELSE ready

\* api_only clears model and model_ready; ml_api clears model.
UnloadModel ==
    /\ variant \in HttpVariants
    /\ started
    /\ IF model # None
       THEN /\ model' = None
            /\ model_ready' = ReadyAfterUnload(variant, model_ready)
            /\ Respond(OkResponse("unload-model",
                 [status |-> "success", message |-> "Model unloaded from memory"],
                 NoTrace))
       ELSE /\ UNCHANGED <<model, model_ready>>
            /\ Respond(OkResponse("unload-model",
                 [status |-> "success", message |-> "Model was not loaded"],
                 NoTrace))
    /\ unload_seen' = TRUE
    /\ req' = [s \in ReqIds |->
                 IF req[s].busy THEN [req[s] EXCEPT !.trace.unloaded_during = TRUE]
                 ELSE req[s]]
    /\ UNCHANGED <<env, started, model_loading, model_load_started, loader, warmed, task>>

\* -------------------------------------------------- status endpoints
ModelStatusText(ready) == IF ready THEN "loaded" ELSE "loading"

\* railway_starter's own module global: bound to api_only.model_ready's value
\* at import time and never assigned again.
rs_model_ready == FALSE

\* api_only.root (also mounted by railway_starter)
ApiRoot ==
    /\ variant \in ThreadedVariants
    /\ started
    /\ Respond(OkResponse("root",
          [status |-> "online", model_status |-> ModelStatusText(model_ready),
           classes |-> CLASS_NAMES],
          NoTrace))
    /\ UNCHANGED <<env, started, flags, loader, warmed, task, req, unload_seen>>

\* A health route that answers 503 when it reports "unhealthy".
HealthCodeByStatus(healthy) ==
    IF healthy THEN HTTP_200_OK ELSE HTTP_503_SERVICE_UNAVAILABLE

\* The status code of a /health route: the decorator's, whatever the dict says.
HealthCode(healthy) == HTTP_200_OK

\* api_only.health_check
ApiHealth ==
    /\ variant = "api_only"
    /\ started
    /\ Respond([ep |-> "health", status |-> HealthCode(TRUE),
                body |-> [status |-> "healthy",
                          model_status |-> ModelStatusText(model_ready)],
                trace |-> NoTrace])
    /\ UNCHANGED <<env, started, flags, loader, warmed, task, req, unload_seen>>

\* railway_starter.health_check
RailwayHealth ==
    /\ variant = "railway_starter"
    /\ started
    /\ Respond([ep |-> "health", status |-> HealthCode(TRUE),
                body |-> [status |-> "healthy",
                          model_status |-> ModelStatusText(rs_model_ready)],
                trace |-> NoTrace])
    /\ UNCHANGED <<env, started, flags, loader, warmed, task, req, unload_seen>>

\* api_only.model_status (also mounted by railway_starter)
ApiModelStatus ==
    /\ variant \in ThreadedVariants
    /\ started
    /\ Respond(OkResponse("model-status",
          [model_loaded |-> (model # None), model_loading |-> model_loading,
           model_ready |-> model_ready],
          NoTrace))
    /\ UNCHANGED <<env, started, flags, loader, warmed, task, req, unload_seen>>

\* ml_api.root
MlRoot ==
    /\ variant = "ml_api"
    /\ Respond(OkResponse("root", [status |-> "online", classes |-> CLASS_NAMES],
          NoTrace))
    /\ UNCHANGED <<env, started, flags, loader, warmed, task, req, unload_seen>>

\* ml_api.health_check
MlHealth ==
    /\ variant = "ml_api"
    /\ Respond([ep |-> "health", status |-> HealthCode(model_file_exists),
                body |-> [status |-> IF model_file_exists THEN "healthy" ELSE "unhealthy",
                          model_file_exists |-> model_file_exists,
                          model_loaded |-> (model # None),
                          classes |-> CLASS_NAMES],
                trace |-> NoTrace])
    /\ UNCHANGED <<env, started, flags, loader, warmed, task, req, unload_seen>>

\* ----------------------------------------------------------------- Next
Next ==
    \/ ApiStartup
    \/ RailwayStartup
    \/ \E i \in LoaderIds : LoaderRun(i)
    \/ \E i \in LoaderIds : LoaderAssign(i)
    \/ \E i \in LoaderIds : LoaderReady(i)
    \/ \E i \in LoaderIds : LoaderFinally(i)
    \/ TaskCheck
    \/ TaskStart
    \/ \E ct \in ContentTypes : ApiPredictBegin(ct)
    \/ \E s \in ReqIds, u \in Uploads : ApiPredictFinish(s, u.img, u.fault, u.v)
    \/ \E ct \in ContentTypes, o \in LoadOutcomes : MlPredictBegin(ct, o)
    \/ \E s \in ReqIds, u \in Uploads : MlPredictFinish(s, u.img, u.fault, u.v)
    \/ \E u \in Uploads, o \in LoadOutcomes : AppPredictXray(u.img, o, u.fault, u.v)
    \/ UnloadModel
    \/ ApiRoot
    \/ ApiHealth
    \/ RailwayHealth
    \/ ApiModelStatus
    \/ MlRoot
    \/ MlHealth

Spec == Init /\ [][Next]_vars

\* ------------------------------------------ api_only under fair scheduling
\* The api_only process alone: the steps of Next that api_only can take.
InitApi == Init /\ variant = "api_only"

NextApi ==
    \/ ApiStartup
    \/ \E i \in LoaderIds : LoaderRun(i)
    \/ \E i \in LoaderIds : LoaderAssign(i)
    \/ \E i \in LoaderIds : LoaderReady(i)
    \/ \E i \in LoaderIds : LoaderFinally(i)
    \/ \E ct \in ContentTypes : ApiPredictBegin(ct)
    \/ \E s \in ReqIds, u \in Uploads : ApiPredictFinish(s, u.img, u.fault, u.v)
    \/ UnloadModel
    \/ ApiRoot
    \/ ApiHealth
    \/ ApiModelStatus

\* The next step of loader thread i.
LoaderStep(i) ==
    LoaderRun(i) \/ LoaderAssign(i) \/ LoaderReady(i) \/ LoaderFinally(i)

\* A polling client (check_deployment.py) posts a valid image, and the
\* processing of a valid image completes.
PollBegin == ApiPredictBegin("image/jpeg")

PollFinish ==
    \E s \in ReqIds, u \in Uploads :
        u.img.ok /\ u.fault = "none" /\ ApiPredictFinish(s, u.img, u.fault, u.v)

\* The server starts, every loader thread is scheduled fairly and the library
\* calls it makes return, and the client keeps polling.
SpecApiFair ==
    /\ InitApi
    /\ [][NextApi]_vars
    /\ WF_vars(ApiStartup)
    /\ \A i \in LoaderIds : WF_vars(LoaderStep(i))
    /\ WF_vars(PollBegin)
    /\ SF_vars(PollFinish)

\* ------------------------------------------------ test_api.py, the client
\* What one GET /health of the client meets: no connection (requests.get
\* raises), or an answer with a status code and a body that is JSON or not.
NoAnswer == [raised |-> TRUE, status |-> 0, json |-> FALSE]

ProbeOutcomes ==
    {NoAnswer} \cup
    {[raised |-> FALSE, status |-> c, json |-> j] :
        c \in {HTTP_200_OK, HTTP_503_SERVICE_UNAVAILABLE}, j \in BOOLEAN}

\* test_health_endpoint: requests.get, then print(response.json()), then
\* `return response.status_code == 200`; any exception returns False.
test_health_endpoint(o) ==
    IF o.raised THEN FALSE
    ELSE IF ~o.json THEN FALSE
    ELSE o.status = HTTP_200_OK

\* A loop that runs one time too many.
RangeHasInclusive(n, max) == n <= max

\* `for i in range(max_retries)`: whether index n is in the range.
RangeHas(n, max) == n < max

\* One iteration of wait_for_api_to_start's loop.
WaitProbe(o) ==
    /\ client_pc = "loop"
    /\ RangeHas(attempt, max_retries)
    /\ probes' = Append(probes, o)
    /\ attempt' = attempt + 1
    /\ client_pc' = IF test_health_endpoint(o) THEN "returned_true" ELSE "loop"
    /\ UNCHANGED <<server, max_retries, deploy>>

\* The loop is exhausted: `return False`.
WaitGiveUp ==
    /\ client_pc = "loop"
    /\ ~RangeHas(attempt, max_retries)
    /\ client_pc' = "returned_false"
    /\ UNCHANGED <<server, max_retries, attempt, probes, deploy>>

\* main after the wait: test_model_status and a normal end, or sys.exit(1).
MainAfterWait ==
    /\ client_pc \in {"returned_true", "returned_false"}
    /\ client_pc' = IF client_pc = "returned_true" THEN "exit_0" ELSE "exit_1"
    /\ UNCHANGED <<server, max_retries, attempt, probes, deploy>>

\* The client started against a service that is not modelled further: every
\* probe may meet any outcome.
InitWait ==
    /\ variant = "api_only"
    /\ model_file_exists = TRUE
    /\ started = FALSE
    /\ model = None
    /\ model_loading = FALSE
    /\ model_load_started = FALSE
    /\ model_ready = FALSE
    /\ loader = [i \in LoaderIds |-> "idle"]
    /\ warmed = {}
    /\ task = NoTasks
    /\ req = [i \in ReqIds |-> NoReq]
    /\ unload_seen = FALSE
    /\ resp = NoResponse
    /\ max_retries \in 0..MaxRetries
    /\ attempt = 0
    /\ probes = <<>>
    /\ client_pc = "loop"
    /\ DeployIdle

NextWait ==
    \/ \E o \in ProbeOutcomes : WaitProbe(o)
    \/ WaitGiveUp
    \/ MainAfterWait

\* The client is a sequential program: it keeps running.
SpecWait == InitWait /\ [][NextWait]_vars /\ WF_vars(NextWait)

\* ------------------------------------------------- check_deployment.py
\* `for i in range(12)`: the polls of the readiness wait.
ReadinessPolls == 12

\* What test_endpoint returns: None when the request raised, response.text
\* when the body is not JSON, and the decoded body otherwise (here a dict,
\* as every endpoint of the service answers). `nonempty` is the truth value
\* Python gives the result, `model_ready` the truth value of its model_ready
\* entry (False when the entry is missing).
test_endpoint ==
    {NoData} \cup
    {[kind |-> "text", nonempty |-> n, model_ready |-> FALSE] : n \in BOOLEAN} \cup
    {[kind |-> "dict", nonempty |-> FALSE, model_ready |-> FALSE]} \cup
    {[kind |-> "dict", nonempty |-> TRUE, model_ready |-> r] : r \in BOOLEAN}

\* bool(data)
Truthy(data) == data.kind # "none" /\ data.nonempty

\* `data and ... data.get("model_ready", False)`: the call is made only when
\* data is truthy, and a str has no method get.
GetRaises(data) == Truthy(data) /\ data.kind = "text"

\* data.get("model_ready", False), where the call is made and returns
ReportsReady(data) == Truthy(data) /\ data.kind = "dict" /\ data.model_ready

\* Line 62: `if model_status and not model_status.get("model_ready", False)`
StillLoading(data) == Truthy(data) /\ data.kind = "dict" /\ ~data.model_ready

\* `for i in range(12)`: whether another iteration follows n iterations.
PollsLeft(n) == n < ReadinessPolls

\* health_data = test_endpoint(base_url, "health"); sys.exit(1) when falsy.
CheckHealth(data) ==
    /\ deploy_pc = "health"
    /\ health_data' = data
    /\ deploy_pc' = IF Truthy(data) THEN "root" ELSE "exit_1"
    /\ UNCHANGED <<server, max_retries, attempt, probes, client_pc,
                   root_data, model_status, poll_i>>

\* root_data = test_endpoint(base_url, "/")
CheckRoot(data) ==
    /\ deploy_pc = "root"
    /\ root_data' = data
    /\ deploy_pc' = "model-status"
    /\ UNCHANGED <<server, max_retries, attempt, probes, client_pc,
                   health_data, model_status, poll_i>>

\* The first /model-status answer and the test of line 62; an AttributeError
\* raised by the test is caught nowhere and ends the script.
CheckModelStatus(data) ==
    /\ deploy_pc = "model-status"
    /\ model_status' = data
    /\ deploy_pc' = IF GetRaises(data) THEN "traceback"
                    ELSE IF StillLoading(data) THEN "wait"
                    ELSE "predict"
    /\ UNCHANGED <<server, max_retries, attempt, probes, client_pc,
                   health_data, root_data, poll_i>>

\* One iteration of the readiness wait: sleep, poll, test of line 69.
PollModelStatus(data) ==
    /\ deploy_pc = "wait"
    /\ PollsLeft(poll_i)
    /\ poll_i' = poll_i + 1
    /\ model_status' = data
    /\ deploy_pc' = IF GetRaises(data) THEN "traceback"
                    ELSE IF ReportsReady(data) THEN "predict"
                    ELSE "wait"
    /\ UNCHANGED <<server, max_retries, attempt, probes, client_pc,
                   health_data, root_data>>

\* The range is exhausted: the loop ends without a break.
PollsExhausted ==
    /\ deploy_pc = "wait"
    /\ ~PollsLeft(poll_i)
    /\ deploy_pc' = "predict"
    /\ UNCHANGED <<server, max_retries, attempt, probes, client_pc,
                   health_data, root_data, model_status, poll_i>>

\* GET /predict, the POST with the image when one is given, the summary.
PredictChecks ==
    /\ deploy_pc = "predict"
    /\ deploy_pc' = "exit_0"
    /\ UNCHANGED <<server, max_retries, attempt, probes, client_pc,
                   health_data, root_data, model_status, poll_i>>

\* The script started against a deployment that is not modelled further:
\* every request may meet any answer.
InitDeploy ==
    /\ variant = "api_only"
    /\ model_file_exists = TRUE
    /\ started = FALSE
    /\ model = None
    /\ model_loading = FALSE
    /\ model_load_started = FALSE
    /\ model_ready = FALSE
    /\ loader = [i \in LoaderIds |-> "idle"]
    /\ warmed = {}
    /\ task = NoTasks
    /\ req = [i \in ReqIds |-> NoReq]
    /\ unload_seen = FALSE
    /\ resp = NoResponse
    /\ max_retries = 0
    /\ attempt = 0
    /\ probes = <<>>
    /\ client_pc = "idle"
    /\ health_data = NoData
    /\ root_data = NoData
    /\ model_status = NoData
    /\ poll_i = 0
    /\ deploy_pc = "health"

NextDeploy ==
    \/ \E data \in test_endpoint : CheckHealth(data)
    \/ \E data \in test_endpoint : CheckRoot(data)
    \/ \E data \in test_endpoint : CheckModelStatus(data)
    \/ \E data \in test_endpoint : PollModelStatus(data)
    \/ PollsExhausted
    \/ PredictChecks

\* The script is a sequential program: it keeps running.
SpecDeploy == InitDeploy /\ [][NextDeploy]_vars /\ WF_vars(NextDeploy)

\* ================================================================ claims
HandledPredict(r) == r.ep = "predict" /\ variant \in HttpVariants

\* C1: a /predict with an accepted content type that is handled while the
\* model is not ready (api_only, railway_starter), or whose model load raises
\* (ml_api), is answered with 503 and with no other status.
C1_NotReadyIs503 ==
    (/\ HandledPredict(resp)
     /\ resp.trace.ct_accepted
     /\ \/ variant \in ThreadedVariants /\ ~resp.trace.loaded_at_arrival
        \/ variant = "ml_api" /\ resp.trace.load_raised)
    => resp.status = HTTP_503_SERVICE_UNAVAILABLE

\* The model was published by a finished load and an unload has removed it.
AfterUnload ==
    /\ unload_seen
    /\ model = None
    /\ ~model_ready
    /\ InProgress(loader) = {}
    /\ \E i \in warmed : loader[i] = "done"

\* C2: in api_only, after the model has been READY and was unloaded, the
\* next /predict with an accepted content type starts a new load: it starts
\* a loader thread or schedules the task that starts one.
C2_PredictAfterUnloadReloads ==
    [][(/\ variant = "api_only"
        /\ AfterUnload
        /\ resp'.ep = "predict"
        /\ resp'.trace.ct_accepted
        /\ ~resp'.trace.loaded_at_arrival)
       => (Started(loader') # Started(loader) \/ task' # task)]_vars

C4_UndecodableIs400 ==
    (/\ HandledPredict(resp)
     /\ resp.trace.ct_accepted
     /\ resp.trace.loaded_at_arrival
     /\ resp.trace.decoded
     /\ ~resp.trace.img.ok)
    => resp.status = HTTP_400_BAD_REQUEST

HandleStates == {"UNLOADED", "LOADING", "READY", "FAILED"}

HandleTransitions ==
    {<<"UNLOADED", "LOADING">>, <<"LOADING", "READY">>, <<"LOADING", "FAILED">>,
     <<"READY", "UNLOADED">>}

\* C5: the model handle of api_only is always UNLOADED, LOADING, READY or
\* FAILED, and it changes only along UNLOADED->LOADING, LOADING->READY,
\* LOADING->FAILED and READY->UNLOADED.
C5_HandleLifecycle ==
    /\ [](variant = "api_only" => Handle \in HandleStates)
    /\ [][(variant = "api_only" /\ Handle' # Handle)
          => <<Handle, Handle'>> \in HandleTransitions]_vars

C7_ForwardOnlyAfterWarmup ==
    /\ (resp.ep \in {"predict", "predict_xray"} /\ resp.trace.forward # None)
       => resp.trace.forward \in warmed
    /\ (variant \in ThreadedVariants /\ model # None) => model \in warmed

LifecycleUnchanged == UNCHANGED <<flags, loader, warmed, task>>

\* C8: a /predict whose declared content type is not accepted is answered
\* with 415 before the model is tested and before the body is read or
\* decoded, and the step changes no lifecycle variable and starts no load.
C8_UnsupportedTypeIs415 ==
    [][(resp'.ep = "predict" /\ variant \in HttpVariants /\ ~resp'.trace.ct_accepted)
       => /\ resp'.status = HTTP_415_UNSUPPORTED_MEDIA_TYPE
          /\ ~resp'.trace.model_checked
          /\ ~resp'.trace.body_read
          /\ ~resp'.trace.decoded
          /\ LifecycleUnchanged]_vars

\* A 415 given while the model is not ready and a load is in progress.
C8_Witness ==
    /\ HandledPredict(resp)
    /\ ~resp.trace.ct_accepted
    /\ resp.status = HTTP_415_UNSUPPORTED_MEDIA_TYPE
    /\ ~Loaded
    /\ InProgress(loader) # {}

Health == ApiHealth \/ RailwayHealth \/ MlHealth

\* C9: /health can be handled in every state of a started service, is
\* answered with 200, and changes no lifecycle variable.
C9_HealthAlways200 ==
    /\ []((started /\ variant \in HttpVariants) => ENABLED Health)
    /\ [][resp'.ep = "health"
          => (resp'.status = HTTP_200_OK /\ LifecycleUnchanged)]_vars

\* A health answer in railway_starter after a load failed on a missing file.
C9_Witness ==
    /\ resp.ep = "health"
    /\ resp.status = HTTP_200_OK
    /\ variant = "railway_starter"
    /\ ~model_file_exists
    /\ Handle = "FAILED"

ResultKeys == {"diagnosis", "confidence", "class_probabilities", "image_size"}

\* C10: a /predict with an accepted content type and a decodable image,
\* handled while the model is READY, with no unload during the request and no
\* library call raising, is answered with 200 and exactly the four result
\* keys, image_size being the upload's "<width>x<height>".
C10_ReadyPredictSucceeds ==
    (/\ HandledPredict(resp)
     /\ resp.trace.ct_accepted
     /\ resp.trace.loaded_at_arrival
     /\ resp.trace.body_read
     /\ resp.trace.img.ok
     /\ ~resp.trace.unloaded_during
     /\ resp.trace.fault = "none")
    => /\ resp.status = HTTP_200_OK
       /\ DOMAIN resp.body = ResultKeys
       /\ resp.body.image_size = <<resp.trace.img.w, "x", resp.trace.img.h>>

\* A success for an upload that is neither square nor of the resize target.
C10_Witness ==
    /\ HandledPredict(resp)
    /\ resp.status = HTTP_200_OK
    /\ resp.trace.img.ok
    /\ resp.trace.img.h # resp.trace.img.w
    /\ resp.trace.img.h # TargetSize
    /\ ~resp.trace.unloaded_during
    /\ resp.trace.fault = "none"

\* ------------------------------------------------------ the result dict
\* A classification was returned: 200 by an HTTP predict, or app's results.
HttpSuccess == HandledPredict(resp) /\ resp.status = HTTP_200_OK

AppSuccess == resp.ep = "predict_xray" /\ "diagnosis" \in DOMAIN resp.body

\* 1-based position of the first maximum of v.
IsFirstMax(v, k) ==
    /\ k \in 1..Len(v)
    /\ \A j \in 1..Len(v) : v[j] <= v[k]
    /\ \A j \in 1..(k - 1) : v[j] < v[k]

FirstMax(v) == CHOOSE k \in 1..Len(v) : IsFirstMax(v, k)

Labels == {<<CLASS_NAMES[i]>> : i \in 1..Len(CLASS_NAMES)}

RECURSIVE SumOver(_, _)
SumOver(f, S) ==
    IF S = {} THEN 0
    ELSE LET x == CHOOSE x \in S : TRUE IN f[x] + SumOver(f, S \ {x})

\* C11, as claimed: for every output vector the diagnosis is the class name at
\* the first maximum, no class_probabilities entry exceeds the diagnosis' own
\* entry, and confidence is 100 times class_probabilities[diagnosis].
C11_DiagnosisIsArgMaxEntry ==
    /\ (HttpSuccess \/ AppSuccess)
       => LET k == FirstMax(resp.trace.output)
          IN /\ k \in DOMAIN CLASS_NAMES
             /\ resp.body.diagnosis = <<CLASS_NAMES[k]>>
    /\ HttpSuccess
       => LET cp == resp.body.class_probabilities
              d == resp.body.diagnosis[1]
          IN /\ d \in DOMAIN cp
             /\ \A n \in DOMAIN cp : cp[n] <= cp[d]
             /\ resp.body.confidence = 100 * cp[d]

\* C11, amended: the diagnosis is the class name at the first maximum when that
\* index is below 3 and the label Class_<index> otherwise; no
\* class_probabilities entry exceeds the maximum output; confidence is 100
\* times the maximum output, which is 100 times class_probabilities[diagnosis]
\* whenever the diagnosis is one of the class names.
C11_DiagnosisIsArgMax ==
    /\ (HttpSuccess \/ AppSuccess)
       => LET k == FirstMax(resp.trace.output)
          IN resp.body.diagnosis =
                IF k <= Len(CLASS_NAMES) THEN <<CLASS_NAMES[k]>>
                ELSE <<"Class_", k - 1>>
    /\ HttpSuccess
       => LET v == resp.trace.output
              k == FirstMax(v)
              cp == resp.body.class_probabilities
              d == resp.body.diagnosis[1]
          IN /\ \A n \in DOMAIN cp : cp[n] <= v[k]
             /\ resp.body.confidence = 100 * v[k]
             /\ k <= Len(CLASS_NAMES)
                => (d \in DOMAIN cp /\ resp.body.confidence = 100 * cp[d])

\* A classification of an output whose first two entries tie for the maximum.
C11_Witness ==
    /\ HttpSuccess
    /\ Len(resp.trace.output) = 3
    /\ resp.trace.output[1] = resp.trace.output[2]
    /\ resp.trace.output[3] < resp.trace.output[1]
    /\ resp.body.diagnosis = <<"Lung_Opacity">>

\* C12, as claimed: whatever vector the network returns, the diagnosis is one
\* of the three labels and confidence lies in 0..100.
C12_LabelAndConfidenceInRange ==
    HttpSuccess
    => /\ resp.body.diagnosis \in Labels
       /\ resp.body.confidence >= 0
       /\ resp.body.confidence <= 100 * Scale

\* C12, amended: the diagnosis is one of the three labels exactly when the
\* first maximum is among the first three outputs (always so for a vector of
\* at most three outputs), and Class_<index> otherwise; confidence lies in
\* 0..100 exactly when the maximum output lies in 0..1.
C12_LabelAndConfidenceFollowOutput ==
    HttpSuccess
    => LET v == resp.trace.output
           k == FirstMax(v)
       IN /\ resp.body.diagnosis \in Labels <=> k <= Len(CLASS_NAMES)
          /\ Len(v) <= Len(CLASS_NAMES) => resp.body.diagnosis \in Labels
          /\ k > Len(CLASS_NAMES) => resp.body.diagnosis = <<"Class_", k - 1>>
          /\ (resp.body.confidence >= 0 /\ resp.body.confidence <= 100 * Scale)
             <=> (v[k] >= 0 /\ v[k] <= Scale)

\* A classification whose label is generated: the maximum is the fourth output.
C12_Witness ==
    /\ HttpSuccess
    /\ Len(resp.trace.output) = 4
    /\ resp.body.diagnosis = <<"Class_", 3>>

\* C17, as claimed: the class_probabilities of every successful predict sum
\* to 1.
C17_ProbabilitiesSumToOne ==
    HttpSuccess
    => SumOver(resp.body.class_probabilities, DOMAIN resp.body.class_probabilities)
       = Scale

\* C17, amended: class_probabilities holds the network's first three outputs
\* (all of them when there are fewer) unchanged, so its values sum to what
\* those outputs sum to: to 1 when the network returns at most three outputs
\* that sum to 1.
C17_ProbabilitiesSumAsOutputs ==
    HttpSuccess
    => LET v == resp.trace.output
           cp == resp.body.class_probabilities
           n == Min(Len(CLASS_NAMES), Len(v))
       IN /\ DOMAIN cp = {CLASS_NAMES[i] : i \in 1..n}
          /\ \A i \in 1..n : cp[CLASS_NAMES[i]] = v[i]
          /\ SumOver(cp, DOMAIN cp) = SumOver(v, 1..n)
          /\ (Len(v) <= Len(CLASS_NAMES) /\ SumOver(v, 1..Len(v)) = Scale)
             => SumOver(cp, DOMAIN cp) = Scale

\* A classification of three outputs that sum to 1.
C17_Witness ==
    /\ HttpSuccess
    /\ Len(resp.trace.output) = 3
    /\ SumOver(resp.trace.output, 1..3) = Scale
    /\ SumOver(resp.body.class_probabilities, DOMAIN resp.body.class_probabilities)
       = Scale

\* ------------------------------------------------------------ no retries
\* A load execution has ended without a warmed-up network: the file was
\* missing, or load_model or the warmup raised.
LoadFailed == \E i \in LoaderIds : loader[i] = "done" /\ i \notin warmed

\* msg occurs in detail.
Contains(detail, msg) ==
    \E k \in 1..Len(detail) :
        k + Len(msg) - 1 <= Len(detail) /\ SubSeq(detail, k, k + Len(msg) - 1) = msg

\* The refusal of predict's not-ready branch, whatever status it arrives with.
NotReadyError(r) ==
    /\ r.status >= HTTP_400_BAD_REQUEST
    /\ Contains(r.body.detail,
                <<"Model is not ready yet, please try again in a few seconds">>)
    /\ ~r.trace.body_read
    /\ r.trace.forward = None

C14_ModelLoadingIsFaithful ==
    (variant \in ThreadedVariants /\ resp.ep = "model-status")
    => (resp.body.model_loading <=> InProgress(loader) # {})

\* ------------------------------------------------- message passthrough
\* The exception the image processing of a handled request raised.
Raised(tr) == ProcessImage(tr.img, tr.forward, tr.fault)

\* C15: a /predict of api_only or ml_api whose upload decoded and whose
\* processing then raised (resize, the forward pass, a model that is gone) is
\* answered with 500, and the detail contains the raised exception's message.
C15_OtherFailureIs500 ==
    (/\ HandledPredict(resp)
     /\ resp.trace.body_read
     /\ resp.trace.img.ok
     /\ Raised(resp.trace).type # "none")
    => /\ resp.status = HTTP_500_INTERNAL_SERVER_ERROR
       /\ Contains(resp.body.detail, Raised(resp.trace).detail)

\* A forward pass that raised in ml_api.
C15_Witness ==
    /\ HandledPredict(resp)
    /\ variant = "ml_api"
    /\ resp.trace.img.ok
    /\ resp.trace.fault = "forward"
    /\ resp.status = HTTP_500_INTERNAL_SERVER_ERROR

\* ------------------------------------------------- wait_for_api_to_start
Returned == client_pc \in {"returned_true", "returned_false", "exit_0", "exit_1"}

ReturnedTrue == client_pc \in {"returned_true", "exit_0"}

ReturnedFalse == client_pc \in {"returned_false", "exit_1"}

\* The probe was answered with HTTP 200.
Answered200(o) == ~o.raised /\ o.status = HTTP_200_OK

\* The probe was answered with HTTP 200 and a JSON body.
Answered200Json(o) == Answered200(o) /\ o.json

\* C16, as claimed: the wait ends after at most max_retries probes; the first
\* probe answered with 200 is the last probe and the wait returns True on it;
\* the wait returns False exactly when all max_retries probes were made and
\* none was answered with 200.
C16_WaitReturnsOnFirst200 ==
    /\ <>Returned
    /\ [](/\ Len(probes) <= max_retries
          /\ \A k \in 1..Len(probes) :
                Answered200(probes[k]) => (k = Len(probes) /\ ReturnedTrue)
          /\ ReturnedTrue => (probes # <<>> /\ Answered200(probes[Len(probes)]))
          /\ Returned
             => (ReturnedFalse
                 <=> (/\ Len(probes) = max_retries
                      /\ \A k \in 1..Len(probes) : ~Answered200(probes[k]))))

\* C16, amended: the same, where a probe succeeds when it is answered with 200
\* and a body that parses as JSON; a probe answered with 200 and another body
\* fails like a refused connection or another status.
C16_WaitReturnsOnFirstSuccess ==
    /\ <>Returned
    /\ [](/\ Len(probes) <= max_retries
          /\ attempt = Len(probes)
          /\ \A k \in 1..Len(probes) :
                Answered200Json(probes[k]) => (k = Len(probes) /\ ReturnedTrue)
          /\ ReturnedTrue => (probes # <<>> /\ Answered200Json(probes[Len(probes)]))
          /\ Returned
             => (ReturnedFalse
                 <=> (/\ Len(probes) = max_retries
                      /\ \A k \in 1..Len(probes) : ~Answered200Json(probes[k])))
          /\ client_pc = "exit_1" => ReturnedFalse)

\* The wait returned True on its last allowed probe after failures of each kind.
C16_Witness ==
    /\ client_pc = "returned_true"
    /\ max_retries = 3
    /\ Len(probes) = max_retries
    /\ probes[1].raised
    /\ Answered200(probes[2]) /\ ~probes[2].json

\* ------------------------------------------- api_only.load_model_if_needed
\* A call took its decision in this step.
Decides == task'.check = task.check - 1

\* A call that had decided to start a load finished in this step.
Starts == task'.start = task.start - 1

Raised503(r, msg) ==
    /\ r.ep = "load_model_if_needed"
    /\ r.status = HTTP_503_SERVICE_UNAVAILABLE
    /\ r.body.detail = <<msg>>

\* C18: load_model_if_needed decides by the lifecycle state the module's
\* flags record.  Model present and ready: it returns the model and changes
\* nothing.  No load started: it goes on to set model_loading and
\* model_load_started, start exactly one loader thread and raise 503.  Load
\* in progress: 503 and no thread.  Load finished without a model: 503
\* "failed to load" and no thread.
C18_LoadModelIfNeededBranches ==
    [][ /\ (Decides /\ model # None /\ model_ready)
           => /\ resp'.ep = "load_model_if_needed"
              /\ resp'.status = 0
              /\ resp'.body.model = model
              /\ UNCHANGED <<flags, loader>>
        /\ (Decides /\ ~(model # None /\ model_ready) /\ ~model_load_started)
           => /\ task'.start = task.start + 1
              /\ UNCHANGED <<flags, loader>>
        /\ Starts
           => /\ model_loading' /\ model_load_started'
              /\ Cardinality(Started(loader')) = Cardinality(Started(loader)) + 1
              /\ Raised503(resp', "Model loading has started, please try again in a few seconds")
              /\ UNCHANGED <<model, model_ready>>
        /\ (Decides /\ ~(model # None /\ model_ready) /\ model_load_started
                /\ model_loading)
           => /\ Raised503(resp', "Model is still loading, please try again in a few seconds")
              /\ UNCHANGED <<flags, loader>>
        /\ (Decides /\ ~(model # None /\ model_ready) /\ model_load_started
                /\ ~model_loading /\ model = None)
           => /\ Raised503(resp', "Model failed to load, please check logs")
              /\ UNCHANGED <<flags, loader>>]_vars

\* A call that found a load finished without a model.
C18_Witness ==
    /\ Raised503(resp, "Model failed to load, please check logs")
    /\ model = None
    /\ model_load_started
    /\ ~model_loading

\* ---------------------------------------------------- loader termination
\* A loader execution succeeded and has finished.
LoadSucceeded == \E i \in warmed : loader[i] = "done"

Classified == resp.ep = "predict" /\ resp.status = HTTP_200_OK

\* C19: in api_only every started loader execution finishes, and its last
\* step leaves model_loading false, whatever the outcome; once an execution
\* has succeeded and while no unload was issued the handle is READY, and the
\* polling client gets a classification.
C19_LoaderFinishes ==
    /\ \A i \in LoaderIds : (loader[i] \notin {"idle", "done"}) ~> (loader[i] = "done")
    /\ [][\A i \in LoaderIds :
            (loader[i] # "done" /\ loader'[i] = "done") => ~model_loading']_vars
    /\ []((started /\ InProgress(loader) = {}) => ~model_loading)
    /\ []((LoadSucceeded /\ ~unload_seen) => Handle = "READY")
    /\ LoadSucceeded ~> (unload_seen \/ Classified)

\* A classification after a successful load, no unload having been issued.
C19_Witness ==
    /\ variant = "api_only"
    /\ LoadSucceeded
    /\ ~unload_seen
    /\ ~model_loading
    /\ Classified

\* ----------------------------------------------------------------- unload
Unloaded(r, msg) ==
    /\ r.ep = "unload-model"
    /\ r.status = HTTP_200_OK
    /\ r.body = [status |-> "success", message |-> msg]

\* C20: /unload-model can be handled in every state of a started service and
\* answers 200 "success".  With a model present it leaves model absent (and
\* in api_only model_ready false) and says "Model unloaded from memory"; with
\* none it changes no lifecycle variable and says "Model was not loaded", so
\* an unload that follows an unload directly is a no-op.  It never writes
\* model_loading or model_load_started and starts nothing.
C20_UnloadIdempotent ==
    /\ []((started /\ variant \in HttpVariants) => ENABLED UnloadModel)
    /\ [][resp'.ep = "unload-model"
          => /\ IF model # None
                THEN /\ Unloaded(resp', "Model unloaded from memory")
                     /\ model' = None
                     /\ variant \in ThreadedVariants => ~model_ready'
                     /\ variant \notin ThreadedVariants => UNCHANGED model_ready
                ELSE /\ Unloaded(resp', "Model was not loaded")
                     /\ UNCHANGED flags
             /\ UNCHANGED <<model_loading, model_load_started, loader, warmed, task>>
             /\ resp.ep = "unload-model"
                => (Unloaded(resp', "Model was not loaded") /\ LifecycleUnchanged)]_vars

\* A second unload in api_only: the model had been loaded and is gone.
C20_Witness ==
    /\ variant = "api_only"
    /\ LoadSucceeded
    /\ model = None
    /\ ~model_ready
    /\ Unloaded(resp, "Model was not loaded")

\* ------------------------------------------------- flags under interleaving
\* C21: in api_only model_ready is true only while a model is present, so
\* /model-status never reports model_ready with model_loaded false and the
\* root endpoint never reports "loaded" while no model is held.
C21_ReadyImpliesModel ==
    variant = "api_only"
    => /\ model_ready => model # None
       /\ resp.ep = "model-status"
          => ~(resp.body.model_ready /\ ~resp.body.model_loaded)
       /\ resp.ep = "root" => (resp.body.model_status = "loaded" => model # None)

\* C22: a /predict of api_only or ml_api that passed the readiness check and
\* whose upload decoded and resized is never run against an absent model: it
\* classifies with a model, or it is refused as not ready.
C22_ForwardNeverOnAbsentModel ==
    (/\ HandledPredict(resp)
     /\ resp.trace.body_read
     /\ resp.trace.img.ok
     /\ resp.trace.fault = "none")
    => \/ resp.status = HTTP_200_OK /\ resp.trace.forward # None
       \/ resp.status = HTTP_503_SERVICE_UNAVAILABLE

\* C23: the model_status field of GET / and GET /health is "loaded" exactly
\* when api_only's model_ready flag is set and "loading" otherwise, in
\* api_only and in railway_starter.
C23_ModelStatusTextIsFaithful ==
    (variant \in ThreadedVariants /\ resp.ep \in {"root", "health"})
    => /\ resp.body.model_status \in {"loaded", "loading"}
       /\ resp.body.model_status = "loaded" <=> model_ready

\* C24: in api_only, a GET /, /health, /model-status or POST /predict handled
\* while the model is present and ready leaves model, model_ready,
\* model_loading and model_load_started unchanged and starts or schedules no
\* load; the handle leaves READY only by /unload-model, and an unload does
\* take it out of READY.
C24_ReadyIsStable ==
    [][variant = "api_only"
       => /\ (/\ model # None /\ model_ready
              /\ resp'.ep \in {"root", "health", "model-status", "predict"})
             => UNCHANGED <<flags, loader, task>>
          /\ (Handle = "READY" /\ Handle' # "READY") => resp'.ep = "unload-model"
          /\ (Handle = "READY" /\ resp'.ep = "unload-model")
             => (Handle' # "READY" /\ model' = None /\ ~model_ready')]_vars

\* A predict that failed while the handle was READY, and left it READY.
C24_Witness ==
    /\ variant = "api_only"
    /\ Handle = "READY"
    /\ resp.ep = "predict"
    /\ resp.trace.body_read
    /\ resp.status = HTTP_500_INTERNAL_SERVER_ERROR

\* ------------------------------------------------- check_deployment.py
\* C25: the readiness wait of check_deployment always ends in the /predict
\* checks: once /health was answered the script reaches them whatever the
\* /model-status requests meet, after at most 12 polls, and a poll that
\* reports model_ready ends the wait at once.
C25_ReadinessWaitProceeds ==
    /\ [](poll_i <= ReadinessPolls)
    /\ [][(deploy_pc = "wait" /\ ReportsReady(model_status'))
          => deploy_pc' = "predict"]_vars
    /\ (deploy_pc = "model-status") ~> (deploy_pc = "predict")

====
